---- MODULE Spec2Model ----
(***************************************************************************)
(* futures-dagtask: a dependency-aware task scheduler.                     *)
(*                                                                         *)
(* TaskGraph owns a graph of per-task State plus a `pending` buffer.       *)
(* execute() splits it into an AddTask handle and an Execute stream which  *)
(* share the graph through a BiLock (try-acquire only).  Execute::poll is  *)
(* modelled in three steps (cancellation check + lock attempt, the body of *)
(* enqueue, the poll of the FuturesUnordered queue) and AddTask::add_task  *)
(* in two (lock attempt, body), so that lock contention between the two    *)
(* handles is a reachable state.                                           *)
(*                                                                         *)
(* The module `graph` (Graph, Index) is not part of the available source;  *)
(* its operations add_node, add_edge, contains, remove_node and walk are   *)
(* modelled from the written specification of the Indexed Graph.           *)
(***************************************************************************)
EXTENDS Naturals, Integers, Sequences, FiniteSets, TLC

\* Number of task values the caller constructs (each add_task call consumes one).
MaxTasks == 4

Ids == 1..MaxTasks

VARIABLES
    phase,      \* "build": TaskGraph owned by the caller; "run": after execute()
    dag,        \* Graph nodes: [present ids -> State]
    edges,      \* Graph edges: set of <<parent, child>>
    last,       \* Graph: last minted Index
    pending,    \* TaskGraph.pending: Seq of IndexFuture
    queue,      \* Execute.queue: FuturesUnordered, a set of IndexFuture
    done,       \* Execute.done: Seq of Index
    rx,         \* oneshot channel: "open", "sent" (value in the slot), "taken"
                \* (value received), "dropped" (sender dropped without sending)
    lock,       \* BiLock holder: "free", "add", "exec"
    pcE,        \* Execute::poll position: "idle", "enqueue", "queue"
    pcA,        \* AddTask::add_task position: "idle", "locked"
    args,       \* arguments of the add_task call in progress
    result,     \* what the last Execute::poll returned ("none" while one is running)
    made,       \* number of task values the caller has constructed so far
    dropped,    \* task values dropped without being stored anywhere
    nyield,     \* history: how many times each id was yielded by Execute::poll
    declared,   \* history: for each id, the dependency list it was created with
    parents,    \* history: for each id, its dependencies present at its creation
    ndisp,      \* history: how many times each id was pushed into the queue
    errored,    \* history: Execute::poll has returned Err
    failed,     \* history: the ids whose future resolved with an error
    late        \* history: the ids created by AddTask::add_task while one of
                \* their counted dependencies was waiting in the done buffer,
                \* kept until the next enqueue has processed that buffer

vars == <<phase, dag, edges, last, pending, queue, done, rx, lock, pcE, pcA,
          args, result, made, dropped, nyield, declared, parents, ndisp, errored,
          failed, late>>

hist == <<nyield, declared, parents, ndisp, errored, failed, late>>

Range(s) == {s[i] : i \in 1..Len(s)}

----------------------------------------------------------------------------
(* enum State<T> { Pending { count, task }, Running } *)
Running == [kind |-> "Running", count |-> 0, task |-> 0]

PendingState(count, task) == [kind |-> "Pending", count |-> count, task |-> task]

IndexFuture(index, fut) == [index |-> index, fut |-> fut]

NoArgs == [deps |-> {}, task |-> 0]

----------------------------------------------------------------------------
(* Indexed Graph *)

\* add_node mints the next identifier and stores the payload
AddNode(g, index, payload) == [x \in (DOMAIN g) \cup {index} |->
                                   IF x = index THEN payload ELSE g[x]]

\* for parent in deps { add_edge(parent, index) }: a no-op for an absent parent
AddEdges(g, E, deps, child) ==
    E \cup {<<p, child>> : p \in {d \in deps : d \in DOMAIN g}}

Contains(g, i) == i \in DOMAIN g

\* remove_node drops the node together with its outgoing edges
RemoveNode(g, index) == [x \in (DOMAIN g) \ {index} |-> g[x]]

RemoveEdges(E, index) == {e \in E : e[1] # index}

RECURSIVE Reach(_, _, _)
Reach(E, frontier, seen) ==
    IF frontier = {} THEN seen
    ELSE LET next == {e[2] : e \in {x \in E : x[1] \in frontier}} \ seen
         IN  Reach(E, next, seen \cup next)

\* walk: every identifier reachable from index via outgoing edges
Walk(E, index) == Reach(E, {index}, {})

----------------------------------------------------------------------------
(* TaskWalker::next, applied to every identifier the walker yields.  Each  *)
(* identifier is visited once and the visits touch different nodes, so the *)
(* outcome does not depend on the order of the walk.                       *)

\* a walker that forgets the decrement
DecrementForgotten(s) == s

\* if let State::Pending { count, .. } = state { *count -= 1 }
Decrement(s) == IF s.kind = "Pending" THEN [s EXCEPT !.count = @ - 1] ELSE s

\* a match guard that forgets the variant: any node whose count reads zero
ExtractableAnyState(s) == s.count = 0

\* State::Pending { count, .. } if *count == 0
Extractable(s) == s.kind = "Pending" /\ s.count = 0

Extracted(g, W) == {x \in W \cap DOMAIN g : Extractable(Decrement(g[x]))}

\* the graph after the walker has run: decremented counts, extracted nodes Running
WalkerDag(g, W) ==
    [x \in DOMAIN g |->
        IF x \in W
        THEN IF Extractable(Decrement(g[x])) THEN Running ELSE Decrement(g[x])
        ELSE g[x]]

\* the IndexFutures the walker returns
WalkerFuts(g, W) == {IndexFuture(x, g[x].task) : x \in Extracted(g, W)}

\* a drain that removes the completed node before walking from it
RECURSIVE DrainDoneRemoveFirst(_, _, _, _, _)
DrainDoneRemoveFirst(g, E, d, out, n) ==
    IF d = <<>> THEN [dag |-> g, edges |-> E, out |-> out, n |-> n]
    ELSE LET index == Head(d)
             W == Walk(RemoveEdges(E, index), index)
         IN  DrainDoneRemoveFirst(RemoveNode(WalkerDag(g, W), index),
                       RemoveEdges(E, index),
                       Tail(d),
                       out \cup WalkerFuts(g, W),
                       [x \in Ids |-> n[x] + IF x \in Extracted(g, W) THEN 1 ELSE 0])

\* for index in self.done.drain(..) { walk; push; remove_node }
RECURSIVE DrainDone(_, _, _, _, _)
DrainDone(g, E, d, out, n) ==
    IF d = <<>> THEN [dag |-> g, edges |-> E, out |-> out, n |-> n]
    ELSE LET index == Head(d)
             W == Walk(E, index)
         IN  DrainDone(RemoveNode(WalkerDag(g, W), index),
                       RemoveEdges(E, index),
                       Tail(d),
                       out \cup WalkerFuts(g, W),
                       [x \in Ids |-> n[x] + IF x \in Extracted(g, W) THEN 1 ELSE 0])

Pushed(n, futs) ==
    [x \in Ids |-> n[x] + Cardinality({i \in 1..Len(futs) : futs[i].index = x})]

----------------------------------------------------------------------------
Init ==
    /\ phase = "build"
    /\ dag = <<>>
    /\ edges = {}
    /\ last = 0
    /\ pending = <<>>
    /\ queue = {}
    /\ done = <<>>
    /\ rx = "open"
    /\ lock = "free"
    /\ pcE = "idle"
    /\ pcA = "idle"
    /\ args = NoArgs
    /\ result = "none"
    /\ made = 0
    /\ dropped = {}
    /\ nyield = [x \in Ids |-> 0]
    /\ declared = [x \in Ids |-> {}]
    /\ parents = [x \in Ids |-> {}]
    /\ ndisp = [x \in Ids |-> 0]
    /\ errored = FALSE
    /\ failed = {}
    /\ late = {}

\* the dependency lists a caller can pass: identifiers the graph has minted
DepSets == SUBSET (1..last)

\* a count that forgets the filter (deps.len(), as in TaskGraph::add_task)
PresentCountUnfiltered(g, deps) == Cardinality(deps)

\* a count with the filter inverted: the identifiers that are absent
PresentCountAbsent(g, deps) == Cardinality({i \in deps : ~Contains(g, i)})

\* deps.iter().filter(|&i| graph.dag.contains(i)).count()
PresentCount(g, deps) == Cardinality({i \in deps : Contains(g, i)})

\* deps.len()
DepsLen(deps) == Cardinality(deps)

\* an insert that assigns the pending buffer instead of pushing to it
InsertReplacingPending(count, deps, task) ==
    LET index == last + 1 IN
    /\ last' = index
    /\ declared' = [declared EXCEPT ![index] = deps]
    /\ parents' = [parents EXCEPT ![index] = deps \cap DOMAIN dag]
    /\ late' = IF count # 0 /\ deps \cap DOMAIN dag \cap Range(done) # {}
               THEN late \cup {index} ELSE late
    /\ IF count = 0
       THEN /\ dag' = AddNode(dag, index, Running)
            /\ pending' = <<IndexFuture(index, task)>>
            /\ edges' = edges
       ELSE /\ dag' = AddNode(dag, index, PendingState(count, task))
            /\ edges' = AddEdges(dag, edges, deps, index)
            /\ pending' = pending

\* the common body of TaskGraph::add_task and AddTask::add_task
Insert(count, deps, task) ==
    LET index == last + 1 IN
    /\ last' = index
    /\ declared' = [declared EXCEPT ![index] = deps]
    /\ parents' = [parents EXCEPT ![index] = deps \cap DOMAIN dag]
    /\ late' = IF count # 0 /\ deps \cap DOMAIN dag \cap Range(done) # {}
               THEN late \cup {index} ELSE late
    /\ IF count = 0
       THEN /\ dag' = AddNode(dag, index, Running)
            /\ pending' = Append(pending, IndexFuture(index, task))
            /\ edges' = edges
       ELSE /\ dag' = AddNode(dag, index, PendingState(count, task))
            /\ edges' = AddEdges(dag, edges, deps, index)
            /\ pending' = pending

\* TaskGraph::add_task
TaskGraphAddTask(deps) ==
    /\ phase = "build"
    /\ made < MaxTasks
    /\ made' = made + 1
    /\ Insert(DepsLen(deps), deps, made + 1)
    /\ UNCHANGED <<phase, queue, done, rx, lock, pcE, pcA, args, result, dropped,
                   nyield, ndisp, errored, failed>>

\* TaskGraph::execute
TaskGraphExecute ==
    /\ phase = "build"
    /\ phase' = "run"
    /\ queue' = Range(pending)
    /\ ndisp' = Pushed(ndisp, pending)
    /\ pending' = <<>>
    /\ UNCHANGED <<dag, edges, last, done, rx, lock, pcE, pcA, args, result, made,
                   dropped, nyield, declared, parents, errored, failed, late>>

\* AddTask::add_task, poll_lock -> Async::Ready
AddTaskLock(deps) ==
    /\ phase = "run" /\ rx = "open" /\ pcA = "idle"
    /\ made < MaxTasks
    /\ lock = "free"
    /\ lock' = "add"
    /\ pcA' = "locked"
    /\ args' = [deps |-> deps, task |-> made + 1]
    /\ made' = made + 1
    /\ UNCHANGED <<phase, dag, edges, last, pending, queue, done, rx, pcE, result,
                   dropped, hist>>

\* AddTask::add_task, poll_lock -> Async::NotReady: returns, the task value is dropped
AddTaskNotReady ==
    /\ phase = "run" /\ rx = "open" /\ pcA = "idle"
    /\ made < MaxTasks
    /\ lock # "free"
    /\ made' = made + 1
    /\ dropped' = dropped \cup {made + 1}
    /\ UNCHANGED <<phase, dag, edges, last, pending, queue, done, rx, lock, pcE, pcA,
                   args, result, hist>>

\* AddTask::add_task, the body under the lock; the guard is released on return
AddTaskBody ==
    /\ pcA = "locked"
    /\ Insert(PresentCount(dag, args.deps), args.deps, args.task)
    /\ lock' = "free"
    /\ pcA' = "idle"
    /\ args' = NoArgs
    /\ UNCHANGED <<phase, queue, done, rx, pcE, result, made, dropped, nyield,
                   ndisp, errored, failed>>

\* AddTask::abort
Abort ==
    /\ phase = "run" /\ rx = "open" /\ pcA = "idle"
    /\ rx' = "sent"
    /\ UNCHANGED <<phase, dag, edges, last, pending, queue, done, lock, pcE, pcA,
                   args, result, made, dropped, hist>>

\* the AddTask handle is dropped: the oneshot sender goes away without sending
DropAddTask ==
    /\ phase = "run" /\ rx = "open" /\ pcA = "idle"
    /\ rx' = "dropped"
    /\ UNCHANGED <<phase, dag, edges, last, pending, queue, done, lock, pcE, pcA,
                   args, result, made, dropped, hist>>

\* a receiver check that lets Err(Canceled) through as if it were NotReady
RxNotReadyOrCanceled(r) == r \in {"open", "taken", "dropped"}

\* a receiver check that ends the stream on Ok(Ready(())) but not on Err(_)
RxNotReadyOrErr(r) == r # "sent"

\* self.rx.poll(): Ok(NotReady) while the sender is alive and has not sent;
\* Ok(Ready(())) takes the value out of the slot, every later poll is Err(Canceled)
RxNotReady(r) == r = "open"

RxPolled(r) == IF r = "sent" THEN "taken" ELSE r

\* Execute::poll, Ok(Async::Ready(())) | Err(_) => return Ok(Async::Ready(None))
PollCancelled ==
    /\ phase = "run" /\ pcE = "idle"
    /\ ~RxNotReady(rx)
    /\ rx' = RxPolled(rx)
    /\ result' = "End"
    /\ UNCHANGED <<phase, dag, edges, last, pending, queue, done, lock, pcE, pcA,
                   args, made, dropped, hist>>

\* Execute::poll -> enqueue, poll_lock -> Async::Ready
PollLock ==
    /\ phase = "run" /\ pcE = "idle"
    /\ RxNotReady(rx)
    /\ lock = "free"
    /\ lock' = "exec"
    /\ pcE' = "enqueue"
    /\ result' = "none"
    /\ UNCHANGED <<phase, dag, edges, last, pending, queue, done, rx, pcA, args,
                   made, dropped, hist>>

\* an enqueue that drains the done buffer before it knows it holds the lock
PollSkipDrainsDone ==
    /\ phase = "run" /\ pcE = "idle"
    /\ RxNotReady(rx)
    /\ lock # "free"
    /\ pcE' = "queue"
    /\ result' = "none"
    /\ done' = <<>>
    /\ UNCHANGED <<phase, dag, edges, last, pending, queue, rx, lock, pcA,
                   args, made, dropped, hist>>

\* Execute::poll -> enqueue, poll_lock -> Async::NotReady: enqueue is skipped
PollSkip ==
    /\ phase = "run" /\ pcE = "idle"
    /\ RxNotReady(rx)
    /\ lock # "free"
    /\ pcE' = "queue"
    /\ result' = "none"
    /\ UNCHANGED <<phase, dag, edges, last, pending, queue, done, rx, lock, pcA,
                   args, made, dropped, hist>>

\* an enqueue that copies the pending buffer instead of draining it
EnqueueKeepsPending ==
    /\ pcE = "enqueue"
    /\ LET r == DrainDone(dag, edges, done, {}, Pushed(ndisp, pending)) IN
        /\ dag' = r.dag
        /\ edges' = r.edges
        /\ queue' = queue \cup Range(pending) \cup r.out
        /\ ndisp' = r.n
    /\ pending' = pending
    /\ done' = <<>>
    /\ lock' = "free"
    /\ pcE' = "queue"
    /\ late' = {}
    /\ UNCHANGED <<phase, last, rx, pcA, args, result, made, dropped, nyield,
                   declared, parents, errored, failed>>

\* Execute::enqueue, the body under the lock
Enqueue ==
    /\ pcE = "enqueue"
    /\ LET r == DrainDone(dag, edges, done, {}, Pushed(ndisp, pending)) IN
        /\ dag' = r.dag
        /\ edges' = r.edges
        /\ queue' = queue \cup Range(pending) \cup r.out
        /\ ndisp' = r.n
    /\ pending' = <<>>
    /\ done' = <<>>
    /\ lock' = "free"
    /\ pcE' = "queue"
    /\ late' = {}
    /\ UNCHANGED <<phase, last, rx, pcA, args, result, made, dropped, nyield,
                   declared, parents, errored, failed>>

\* self.queue.poll() -> Ok(Async::Ready(Some((i, item))))
QueueReady(f) ==
    /\ pcE = "queue"
    /\ f \in queue
    /\ queue' = queue \ {f}
    /\ done' = Append(done, f.index)
    /\ nyield' = [nyield EXCEPT ![f.index] = @ + 1]
    /\ result' = "Item"
    /\ pcE' = "idle"
    /\ UNCHANGED <<phase, dag, edges, last, pending, rx, lock, pcA, args, made,
                   dropped, declared, parents, ndisp, errored, failed, late>>

\* a poll that forwards the queue's Ready(None) as the end of the stream
QueueNotReadyEnds ==
    /\ pcE = "queue"
    /\ result' = IF queue = {} THEN "End" ELSE "NotReady"
    /\ pcE' = "idle"
    /\ UNCHANGED <<phase, dag, edges, last, pending, queue, done, rx, lock, pcA,
                   args, made, dropped, hist>>

\* a poll that ends the stream once the queue and the graph are both empty
QueueNotReadyEndsWhenEmpty ==
    /\ pcE = "queue"
    /\ result' = IF queue = {} /\ DOMAIN dag = {} THEN "End" ELSE "NotReady"
    /\ pcE' = "idle"
    /\ UNCHANGED <<phase, dag, edges, last, pending, queue, done, rx, lock, pcA,
                   args, made, dropped, hist>>

\* self.queue.poll() -> Ok(Async::Ready(None)) | Ok(Async::NotReady)
QueueNotReady ==
    /\ pcE = "queue"
    /\ result' = "NotReady"
    /\ pcE' = "idle"
    /\ UNCHANGED <<phase, dag, edges, last, pending, queue, done, rx, lock, pcA,
                   args, made, dropped, hist>>

\* an error arm that records the failed id as done
QueueErrRecordsDone(f) ==
    /\ pcE = "queue"
    /\ f \in queue
    /\ queue' = queue \ {f}
    /\ done' = Append(done, f.index)
    /\ result' = "Err"
    /\ errored' = TRUE
    /\ failed' = failed \cup {f.index}
    /\ pcE' = "idle"
    /\ UNCHANGED <<phase, dag, edges, last, pending, rx, lock, pcA, args,
                   made, dropped, nyield, declared, parents, ndisp, late>>

\* self.queue.poll() -> Err(err): the failed future has left the queue
QueueErr(f) ==
    /\ pcE = "queue"
    /\ f \in queue
    /\ queue' = queue \ {f}
    /\ result' = "Err"
    /\ errored' = TRUE
    /\ failed' = failed \cup {f.index}
    /\ pcE' = "idle"
    /\ UNCHANGED <<phase, dag, edges, last, pending, done, rx, lock, pcA, args,
                   made, dropped, nyield, declared, parents, ndisp, late>>

Next ==
    \/ \E deps \in DepSets : TaskGraphAddTask(deps)
    \/ TaskGraphExecute
    \/ \E deps \in DepSets : AddTaskLock(deps)
    \/ AddTaskNotReady
    \/ AddTaskBody
    \/ Abort
    \/ DropAddTask
    \/ PollCancelled
    \/ PollLock
    \/ PollSkip
    \/ Enqueue
    \/ \E f \in queue : QueueReady(f)
    \/ QueueNotReady
    \/ \E f \in queue : QueueErr(f)

Spec == Init /\ [][Next]_vars

\* Runs in which no task fails, abort is never called and the AddTask handle
\* is kept alive; the stream is polled again and again, a critical section
\* under the lock finishes, and a task in the queue eventually resolves.
NextLive ==
    \/ \E deps \in DepSets : TaskGraphAddTask(deps)
    \/ TaskGraphExecute
    \/ \E deps \in DepSets : AddTaskLock(deps)
    \/ AddTaskNotReady
    \/ AddTaskBody
    \/ PollLock
    \/ PollSkip
    \/ Enqueue
    \/ \E f \in queue : QueueReady(f)
    \/ QueueNotReady

LiveSpec ==
    /\ Init /\ [][NextLive]_vars
    /\ WF_vars(PollLock \/ PollSkip)
    /\ WF_vars(Enqueue)
    /\ WF_vars(AddTaskBody)
    /\ WF_vars(QueueNotReady \/ \E f \in queue : QueueReady(f))
    /\ SF_vars(\E f \in queue : QueueReady(f))

----------------------------------------------------------------------------
\* the ids whose (id, result) pair the stream has yielded
Completed == {t \in Ids : nyield[t] > 0}

Dispatched == {t \in Ids : ndisp[t] > 0}

\* C1: a task is dispatched only after every dependency that was present in
\* the graph when it was created has completed (its pair has been produced).
C1_DispatchedAfterDeps ==
    \A t \in Dispatched : parents[t] \subseteq Completed

IsPending(g, n) == n \in DOMAIN g /\ g[n].kind = "Pending"

IsRunning(g, n) == n \in DOMAIN g /\ g[n].kind = "Running"

\* C2: if an edge from a to b was recorded when b was created, the pair for b
\* is never yielded before the pair for a: there is no state in which b has
\* been yielded and a has not.
C2_YieldOrder ==
    \A b \in Ids : \A a \in parents[b] : nyield[b] > 0 => nyield[a] > 0

\* C3: a node goes from Pending to Running exactly once, in the step in which
\* its count reaches zero (a Pending node never holds count zero), never from
\* Running back to Pending; no id is pushed into the queue twice and no id
\* appears twice in the yielded sequence.
C3_DispatchedOnce ==
    [][\A n \in Ids :
          /\ (IsRunning(dag, n) /\ n \in DOMAIN dag') => IsRunning(dag', n)
          /\ IsPending(dag, n) => (dag[n].count >= 1 /\ ndisp[n] = 0)
          /\ (IsPending(dag, n) /\ IsRunning(dag', n)) =>
                /\ IndexFuture(n, dag[n].task) \in queue'
                /\ ndisp'[n] = 1
          /\ IsPending(dag, n) => n \in DOMAIN dag'
          /\ ndisp'[n] <= 1
          /\ nyield'[n] <= 1]_vars

\* a node created with dependencies has been dispatched by a cascade, has
\* completed, and a later cascade has walked over it while it was Running
C3_Witness ==
    \E n \in Completed : parents[n] # {} /\ \E m \in Completed : parents[m] = {n}

\* C5: AddTask::add_task with a dependency list whose identifiers have all been
\* removed inserts the node as Running and buffers the task in that same call,
\* exactly as with an empty list; the next enqueue that runs moves the whole
\* pending buffer into the queue.
C5_StaleDepsAreNoDeps ==
    [][/\ (pcA = "locked" /\ pcA' = "idle" /\ args.deps \cap DOMAIN dag = {}) =>
            /\ dag' = AddNode(dag, last + 1, Running)
            /\ pending' = Append(pending, IndexFuture(last + 1, args.task))
            /\ edges' = edges
       /\ (pcE = "enqueue" /\ pcE' = "queue") =>
            /\ Range(pending) \subseteq queue'
            /\ pending' = <<>>]_vars

\* a task added with a non-empty list of removed identifiers has reached the queue
C5_Witness ==
    \E n \in Dispatched :
        /\ declared[n] # {}
        /\ parents[n] = {}
        /\ declared[n] \subseteq Completed

\* C6: once abort has sent the signal, a poll that starts returns
\* end-of-sequence without yielding anything, and so does every later poll.
C6_AbortEndsStream ==
    [][(rx \in {"sent", "taken"} /\ pcE = "idle") =>
            /\ nyield' = nyield
            /\ pcE' = "idle"
            /\ result' = "End"]_vars

\* abort was observed with an item already yielded and a task still in flight
C6_Witness ==
    /\ rx = "taken" /\ result = "End"
    /\ Completed # {}
    /\ queue # {}
    /\ \E n \in DOMAIN dag : dag[n].kind = "Pending"

\* C7: once Execute::poll has returned an error, no later poll yields an item.
C7_NothingAfterError ==
    [][errored => nyield' = nyield]_vars

\* C8: an add_task call that finds the lock held returns NotReady and changes
\* nothing: no node, no edge, no buffered task, no identifier minted, and the
\* task value is not lost.
C8_NotReadyHasNoEffect ==
    [][(phase = "run" /\ pcA = "idle" /\ pcA' = "idle" /\ made' = made + 1) =>
            /\ UNCHANGED <<dag, edges, last, pending, queue, done>>
            /\ dropped' = dropped]_vars

\* every submitted task has completed and been processed; nothing is left
Exhausted ==
    /\ last >= 1
    /\ DOMAIN dag = {}
    /\ queue = {} /\ pending = <<>> /\ done = <<>>
    /\ Completed = 1..last

\* C9 as stated: on graph exhaustion the poll returns end-of-sequence.
C9_ExhaustionEndsStream ==
    [][(Exhausted /\ pcE = "queue" /\ pcE' = "idle") => result' = "End"]_vars

\* C9, amended: on graph exhaustion, with no cancellation and the sender alive,
\* the poll returns NotReady and yields nothing; end-of-sequence is returned
\* only by a poll that finds the cancellation fired or the sender gone.
C9_ExhaustionSuspends ==
    [][/\ (Exhausted /\ pcE = "queue" /\ pcE' = "idle") =>
            (result' = "NotReady" /\ nyield' = nyield)
       /\ (result' = "End" /\ result # "End") => rx # "open"]_vars

\* the stream was polled on an exhausted graph while the sender was alive
C9_Witness ==
    /\ Exhausted /\ last >= 2
    /\ rx = "open" /\ pcE = "idle" /\ result = "NotReady"

\* C10: a node created with two or more dependencies, one of which has not
\* completed, is never in the yielded sequence.
C10_NeverYieldedWhileDepOutstanding ==
    \A e \in Ids :
        (Cardinality(parents[e]) >= 2 /\ \E f \in parents[e] : f \notin Completed)
            => e \notin Completed

\* C4: when every task resolves successfully, nothing is aborted and the
\* stream keeps being polled, every task in the graph is eventually yielded,
\* and no task is yielded twice.
C4_EveryTaskYieldedOnce ==
    /\ []<>(phase = "run" => \A t \in 1..last : t \in Completed)
    /\ [](\A t \in Ids : nyield[t] <= 1)

\* the fan-out A, B <- [A], C <- [A] has run to completion: three pairs, A's first
C4_Witness ==
    /\ last = 3 /\ made = 3
    /\ parents[1] = {} /\ parents[2] = {1} /\ parents[3] = {1}
    /\ Completed = {1, 2, 3}
    /\ DOMAIN dag = {}

\* C11: once the AddTask handle has been dropped without abort, a poll that
\* starts returns end-of-sequence without yielding anything, and so does
\* every later poll, whatever is pending or in flight.
C11_DropEndsStream ==
    [][(rx = "dropped" /\ pcE = "idle") =>
            /\ nyield' = nyield
            /\ pcE' = "idle"
            /\ result' = "End"
            /\ rx' = "dropped"]_vars

\* the drop was observed while a task was in flight and another was Pending
C11_Witness ==
    /\ rx = "dropped" /\ result = "End"
    /\ queue # {}
    /\ \E n \in DOMAIN dag : dag[n].kind = "Pending"

\* the nodes a step removes from the graph
Removed == (DOMAIN dag) \ (DOMAIN dag')

\* C12: the count of a Pending node only changes by one decrement for each of
\* its own recorded parents that a step processes and removes; the completion
\* of a node that is not its parent leaves it unchanged, and it becomes
\* Running exactly when those decrements bring the count to zero.
C12_DecrementedOncePerParent ==
    [][\A n \in Ids :
          IsPending(dag, n) =>
              LET k == Cardinality(parents[n] \cap Removed)
              IN  IF IsPending(dag', n)
                  THEN dag'[n].count = dag[n].count - k
                  ELSE IsRunning(dag', n) /\ dag[n].count = k]_vars

PendingIds == {pending[i].index : i \in 1..Len(pending)}

QueueIds == {f.index : f \in queue}

\* C13: a node is removed from the graph only after it has been yielded; a node
\* that is Pending, buffered in pending or in flight in the queue, or whose
\* task failed, is never removed.
C13_RemovedOnlyAfterYield ==
    [][\A n \in Removed :
          /\ nyield[n] >= 1
          /\ n \in Range(done)
          /\ ~IsPending(dag, n)
          /\ n \notin PendingIds \cup QueueIds
          /\ n \notin failed]_vars

\* a yielded node has been removed while others were Pending and in flight
C13_Witness ==
    /\ \E n \in Completed : n \notin DOMAIN dag
    /\ \E n \in DOMAIN dag : dag[n].kind = "Pending"
    /\ queue # {}
    /\ failed # {}

\* C14: the poll that yields an item only appends its id to done and leaves
\* the graph unchanged; the enqueue of a later poll that acquires the lock
\* decrements or dispatches the Pending children of every id in done, removes
\* those ids and leaves done empty; a poll whose enqueue does not acquire the
\* lock leaves done and the graph unchanged.  done never loses an id otherwise.
C14_CascadeDeferred ==
    [][/\ (pcE = "queue" /\ result' = "Item") =>
            /\ dag' = dag /\ edges' = edges
            /\ \E i \in DOMAIN dag : done' = Append(done, i) /\ nyield'[i] = nyield[i] + 1
       /\ (pcE = "enqueue" /\ pcE' = "queue") =>
            /\ done' = <<>>
            /\ Range(done) \cap DOMAIN dag' = {}
            /\ \A c \in Ids :
                  (IsPending(dag, c) /\ parents[c] \cap Range(done) # {}) =>
                      \/ IsRunning(dag', c)
                      \/ IsPending(dag', c) /\ dag'[c].count < dag[c].count
       /\ (pcE = "idle" /\ pcE' = "queue") =>
            /\ done' = done /\ dag' = dag /\ edges' = edges
       /\ (done' # done) =>
            \/ pcE = "queue" /\ \E i \in Ids : done' = Append(done, i)
            \/ pcE = "enqueue" /\ done' = <<>>]_vars

\* a poll has skipped its enqueue under contention while a completion whose
\* child is still Pending waits in done
C14_Witness ==
    /\ pcE = "queue" /\ lock = "add"
    /\ \E c \in DOMAIN dag :
          dag[c].kind = "Pending" /\ parents[c] \cap Range(done) # {}

\* C15: while the cancellation has not fired and the sender is alive,
\* Execute::poll never returns end-of-sequence: a poll that starts goes on to
\* enqueue and the queue, and a poll that finds nothing ready returns NotReady,
\* whether tasks are in flight or the queue is empty.
C15_NoEndWhileSenderAlive ==
    [][/\ result = "End" => rx # "open"
       /\ (rx = "open" /\ result' = "End") => FALSE
       /\ (rx = "open" /\ pcE = "idle" /\ pcE' # pcE) => result' = "none"
       /\ (pcE = "queue" /\ pcE' = "idle" /\ nyield' = nyield /\ ~errored') =>
              result' = "NotReady"]_vars

\* the stream was polled with the sender alive, nothing in flight and no
\* buffered work, and suspended
C15_Witness ==
    /\ rx = "open" /\ pcE = "idle" /\ lock = "free"
    /\ result = "NotReady"
    /\ queue = {} /\ pending = <<>> /\ done = <<>>
    /\ last >= 1

C17_AddOnlyAdds ==
    [][/\ (pcA = "locked" /\ pcA' = "idle") =>
            LET new == last + 1 IN
            /\ new \notin DOMAIN dag
            /\ DOMAIN dag' = (DOMAIN dag) \cup {new}
            /\ \A n \in DOMAIN dag : dag'[n] = dag[n]
            /\ done' = done /\ queue' = queue
            /\ edges \subseteq edges'
            /\ \A e \in edges' \ edges : e[2] = new
            /\ \/ pending' = pending
               \/ /\ pending' = Append(pending, IndexFuture(new, args.task))
                  /\ edges' = edges
       /\ (\/ Removed # {}
           \/ \E n \in (DOMAIN dag) \cap (DOMAIN dag') : dag'[n] # dag[n]) =>
            (pcE = "enqueue" /\ pcE' = "queue")]_vars

\* the handle has added a node next to a buffered task, a completion waiting
\* in done and a task in flight
C17_Witness ==
    /\ pcA = "idle" /\ phase = "run"
    /\ last \in DOMAIN dag
    /\ Len(pending) >= 2
    /\ done # <<>>
    /\ queue # {}

\* in how many of the places pending buffer, queue, done buffer, failed id n is
Places(n) ==
    (IF n \in PendingIds THEN 1 ELSE 0) + (IF n \in QueueIds THEN 1 ELSE 0)
        + (IF n \in Range(done) THEN 1 ELSE 0) + (IF n \in failed THEN 1 ELSE 0)

\* the task values held in Pending nodes
NodeTasks == {dag[n].task : n \in {x \in DOMAIN dag : dag[x].kind = "Pending"}}

\* C18: every node of the graph is accounted for exactly once: a Pending node
\* has count >= 1 and is in no buffer; a Running node is in exactly one of the
\* pending buffer, the queue, the done buffer, or has failed; every id in a
\* buffer is a node of the graph; no id and no task value occurs twice.
C18_NodesAccountedOnce ==
    /\ \A n \in DOMAIN dag :
          IF dag[n].kind = "Pending"
          THEN dag[n].count >= 1 /\ Places(n) = 0
          ELSE Places(n) = 1
    /\ PendingIds \cup QueueIds \cup Range(done) \cup failed \subseteq DOMAIN dag
    /\ Cardinality(PendingIds) = Len(pending)
    /\ Cardinality(Range(done)) = Len(done)
    /\ Cardinality(QueueIds) = Cardinality(queue)
    /\ LET held == {f.fut : f \in queue \cup Range(pending)} IN
          /\ Cardinality(held) = Cardinality(queue) + Len(pending)
          /\ held \cap NodeTasks = {}
          /\ Cardinality(NodeTasks)
                = Cardinality({x \in DOMAIN dag : dag[x].kind = "Pending"})
          /\ (held \cup NodeTasks) \cap dropped = {}

\* one node in each place: Pending, buffered, in flight, completed
C18_Witness ==
    /\ \E n \in DOMAIN dag : dag[n].kind = "Pending"
    /\ pending # <<>>
    /\ queue # {}
    /\ done # <<>>

\* C19: a task added while a counted dependency P is waiting in the done
\* buffer is created Pending with an edge from P; the next enqueue dispatches
\* every Pending node all of whose present parents are in done; and a Pending
\* node never waits for more parents than are still in the graph.
C19_LateChildNotStarved ==
    [][/\ \A n \in DOMAIN dag :
            dag[n].kind = "Pending" =>
                dag[n].count <= Cardinality(parents[n] \cap DOMAIN dag)
       /\ (pcA = "locked" /\ pcA' = "idle"
              /\ args.deps \cap Range(done) # {}) =>
            /\ IsPending(dag', last + 1)
            /\ dag'[last + 1].count = Cardinality(args.deps \cap DOMAIN dag)
            /\ \A p \in args.deps \cap Range(done) : <<p, last + 1>> \in edges'
       /\ (pcE = "enqueue" /\ pcE' = "queue") =>
            \A n \in Ids :
                (IsPending(dag, n) /\ parents[n] \cap DOMAIN dag \subseteq Range(done)) =>
                    /\ IsRunning(dag', n)
                    /\ IndexFuture(n, dag[n].task) \in queue']_vars

\* a task was added whose only present dependency had already been yielded
C19_Witness ==
    \E n \in late :
        /\ IsPending(dag, n)
        /\ parents[n] \subseteq Range(done)
        /\ parents[n] \subseteq Completed

RECURSIVE Ancestors(_)
Ancestors(n) == parents[n] \cup UNION {Ancestors(p) : p \in parents[n]}

\* C20: a failed id is never in the done buffer and its node stays in the
\* graph; every node that depends on it, directly or transitively, stays
\* Pending and is never dispatched.
C20_FailureFreezesDependents ==
    \A f \in failed :
        /\ f \in DOMAIN dag
        /\ f \notin Range(done)
        /\ \A n \in Ids : f \in Ancestors(n) => (IsPending(dag, n) /\ ndisp[n] = 0)

====
